---- MODULE Spec2Model ----
(***************************************************************************)
(* Model of src/bot.py: the document wizard driven by a                    *)
(* telegram.ext.ConversationHandler, its per-user FormData record, the     *)
(* document generator router and the database gateway.                     *)
(*                                                                         *)
(* Text is modelled below the level of the operations the code applies to  *)
(* it: a text message is a sequence of one-character strings (so strip()   *)
(* and float() are computed), and callback data is the sequence of its     *)
(* "_"-separated pieces (so split("_", 2), startswith and replace are      *)
(* computed).  The empty string is the empty sequence.                     *)
(***************************************************************************)
EXTENDS Integers, Sequences, FiniteSets, TLC

\* ------------------------------------------------------------------------
\* Bounds
\* ------------------------------------------------------------------------
\* documents rows stored before the proceed transition is no longer explored
MaxDocs == 1

\* answers followed in each conversation when the user writes from two chats
MaxChatAnswers == 1

\* ------------------------------------------------------------------------
\* Conversation states (src/bot.py 48-97), by name, and ConversationHandler.END
\* ------------------------------------------------------------------------
StateNames ==
  << "MAIN_MENU", "SELECT_TEMPLATE",
     "FORM_FIRST_NAME", "FORM_LAST_NAME", "FORM_ADDRESS", "FORM_CITY",
     "FORM_POSTAL_CODE", "FORM_UNIT", "FORM_PHONE",
     "PAYROLL_EMPLOYER", "PAYROLL_SALARY", "PAYROLL_PERIOD",
     "PAYROLL_PROVINCE", "PAYROLL_HOURS", "PAYROLL_RATE",
     "BANK_NAME", "BANK_ACCOUNT", "BANK_BALANCE", "BANK_TRANSACTIONS",
     "BILL_COMPANY", "BILL_AMOUNT", "BILL_DUE_DATE", "BILL_SERVICE",
     "T4_EMPLOYER_NAME", "T4_EMPLOYER_BN", "T4_EMPLOYMENT_INCOME",
     "T4_CPP_CONTRIBUTION", "T4_EI_PREMIUM", "T4_TAX_DEDUCTED", "T4_YEAR",
     "T4_PROVINCE", "T4_OTHER_INCOME",
     "LETTER_EMPLOYER_NAME", "LETTER_EMPLOYER_ADDRESS", "LETTER_JOB_TITLE",
     "LETTER_START_DATE", "LETTER_SALARY", "LETTER_EMPLOYMENT_TYPE",
     "LETTER_PURPOSE", "LETTER_END_DATE",
     "CONFIRM" >>

WizardStates == { StateNames[i] : i \in DOMAIN StateNames }

\* the value a handler returns to end the conversation
END == "END"

\* the conversation key is absent from ConversationHandler._conversations
None == "None"

\* ------------------------------------------------------------------------
\* Strings
\* ------------------------------------------------------------------------
Empty == << >>

\* a text as the sequence of its characters, for the texts used as inputs
Ann      == << "A", "n", "n" >>
Blank    == << " " >>
Padded   == << " ", "L", "e", "e", " " >>
Abc      == << "a", "b", "c" >>
Zero     == << "0" >>
Amt15050 == << "1", "5", "0", ".", "5", "0" >>
Ontario  == << "O", "n", "t" >>
Minus5   == << "-", "5" >>
AmtComma == << "1", "5", "0", ",", "5", "0" >>
AmtDollar == << "$", "1", "5", "0", ".", "5", "0" >>
Amt2000  == << "2", "0", "0", "0" >>
Amt10000 == << "1", "0", "0", "0", "0" >>
Amt20000 == << "2", "0", "0", "0", "0" >>
Weekly   == << "w", "e", "e", "k", "l", "y" >>
Monthly  == << "m", "o", "n", "t", "h", "l", "y" >>

RECURSIVE lstrip(_)
lstrip(s) == IF s # Empty /\ Head(s) = " " THEN lstrip(Tail(s)) ELSE s

RECURSIVE rstrip(_)
rstrip(s) ==
  IF s # Empty /\ s[Len(s)] = " " THEN rstrip(SubSeq(s, 1, Len(s) - 1)) ELSE s

\* str.strip()
strip(s) == rstrip(lstrip(s))

\* s.replace(ch, '') for a one-character ch
RECURSIVE remove(_, _)
remove(s, ch) ==
  IF s = Empty THEN Empty
  ELSE IF Head(s) = ch THEN remove(Tail(s), ch)
       ELSE << Head(s) >> \o remove(Tail(s), ch)

Digits == { "0", "1", "2", "3", "4", "5", "6", "7", "8", "9" }

DigitVal(d) ==
  CASE d = "0" -> 0 [] d = "1" -> 1 [] d = "2" -> 2 [] d = "3" -> 3
    [] d = "4" -> 4 [] d = "5" -> 5 [] d = "6" -> 6 [] d = "7" -> 7
    [] d = "8" -> 8 [] d = "9" -> 9

AllDigits(s) == \A i \in DOMAIN s : s[i] \in Digits

RECURSIVE NatVal(_)
NatVal(s) ==
  IF s = Empty THEN 0
  ELSE 10 * NatVal(SubSeq(s, 1, Len(s) - 1)) + DigitVal(s[Len(s)])

\* position of the first "." of s, 0 when there is none
DotPos(s) ==
  IF \E i \in DOMAIN s : s[i] = "."
  THEN CHOOSE i \in DOMAIN s : s[i] = "." /\ \A j \in 1..(i - 1) : s[j] # "."
  ELSE 0

\* an unsigned decimal literal: digits, at most one ".", at least one digit
IsUnsignedDecimal(s) ==
  LET p == DotPos(s) IN
  IF p = 0 THEN s # Empty /\ AllDigits(s)
  ELSE /\ AllDigits(SubSeq(s, 1, p - 1))
       /\ AllDigits(SubSeq(s, p + 1, Len(s)))
       /\ Len(s) > 1

\* value in hundredths of an unsigned decimal literal with at most two
\* decimals (the inputs used here have no more)
UnsignedCents(s) ==
  LET p    == DotPos(s)
      ip   == IF p = 0 THEN s ELSE SubSeq(s, 1, p - 1)
      fp   == IF p = 0 THEN Empty ELSE SubSeq(s, p + 1, Len(s))
      fp2  == IF Len(fp) = 0 THEN << "0", "0" >>
              ELSE IF Len(fp) = 1 THEN fp \o << "0" >>
              ELSE SubSeq(fp, 1, 2)
  IN 100 * NatVal(ip) + NatVal(fp2)

\* float(s): [ok |-> FALSE] when float() raises ValueError, otherwise the
\* value in hundredths.  float() trims surrounding whitespace and accepts
\* one leading sign.
float(s) ==
  LET t    == strip(s)
      neg  == t # Empty /\ Head(t) = "-"
      body == IF t # Empty /\ Head(t) \in { "-", "+" } THEN Tail(t) ELSE t
  IN IF IsUnsignedDecimal(body)
     THEN [ok |-> TRUE,
           cents |-> IF neg THEN 0 - UnsignedCents(body) ELSE UnsignedCents(body)]
     ELSE [ok |-> FALSE, cents |-> 0]

\* float(text.replace(',', '').replace('$', '')) as the generators compute it
ParseAmount(s) == float(remove(remove(s, ","), "$"))

\* ------------------------------------------------------------------------
\* TEMPLATES (src/bot.py 103-154): category key -> template ids, each name
\* as its "_"-separated pieces
\* ------------------------------------------------------------------------
CategoryKeys ==
  << << "payroll" >>, << "bank" >>, << "bill" >>, << "t4" >>,
     << "employment", "letter" >> >>

Categories == { CategoryKeys[i] : i \in DOMAIN CategoryKeys }

TEMPLATES(category) ==
  CASE category = << "payroll" >> ->
         << << "pay", "standard" >>, << "pay", "detailed" >>,
            << "pay", "simple" >>, << "pay", "biweekly" >> >>
    [] category = << "bank" >> ->
         << << "bank", "monthly" >>, << "bank", "detailed" >>,
            << "bank", "summary" >>, << "bank", "proof" >> >>
    [] category = << "bill" >> ->
         << << "bill", "utility" >>, << "bill", "telecom" >>,
            << "bill", "rent" >>, << "bill", "invoice" >> >>
    [] category = << "t4" >> ->
         << << "t4", "standard" >>, << "t1", "general" >>,
            << "rl1", "quebec" >>, << "t4", "summary" >> >>
    [] category = << "employment", "letter" >> ->
         << << "letter", "confirmation" >>, << "letter", "reference" >>,
            << "letter", "income" >>, << "letter", "termination" >> >>
    [] OTHER -> << >>

\* ------------------------------------------------------------------------
\* FormData (src/bot.py 160-221)
\* ------------------------------------------------------------------------
\* the one Telegram user of the model: update.effective_user
User == [id |-> "u1", username |-> << "a", "n", "n" >>]

FieldNames ==
  { "first_name", "last_name", "address", "city", "postal_code", "unit",
    "phone",
    "employer_name", "salary", "pay_period", "province", "hours",
    "hourly_rate",
    "bank_name", "account_number", "balance", "transactions",
    "company_name", "amount", "due_date", "service_type",
    "t4_employer_name", "t4_employer_bn", "employment_income",
    "cpp_contribution", "ei_premium", "tax_deducted", "tax_year",
    "t4_province", "other_income",
    "letter_employer_name", "letter_employer_address", "job_title",
    "start_date", "letter_salary", "employment_type", "letter_purpose",
    "end_date" }

FormKeys == { "user_id", "username", "category", "template_id" } \cup FieldNames

\* FormData(user_id=..., username=...): every other attribute at its default ""
FormData(user_id, username) ==
  [k \in FormKeys |->
     IF k = "user_id" THEN user_id
     ELSE IF k = "username" THEN username
     ELSE Empty]

\* FormData(): user_id 0, username ""
DefaultFormData == FormData("0", Empty)

\* context.user_data.get("form", FormData())
GetForm(ud) == IF ud.has THEN ud.form ELSE DefaultFormData

\* context.user_data["form"] = form
SetForm(form) == [has |-> TRUE, form |-> form]

\* ------------------------------------------------------------------------
\* Keyboards (src/bot.py 848-897): the callback data of every button
\* ------------------------------------------------------------------------
SeqToSet(q) == { q[i] : i \in DOMAIN q }

BACK_MAIN == << "BACK", "MAIN" >>
MY_DOCS   == << "MY", "DOCS" >>
SKIP      == << "SKIP" >>

CONFIRM_YES    == << "CONFIRM", "YES" >>
CONFIRM_EDIT   == << "CONFIRM", "EDIT" >>
CONFIRM_CANCEL == << "CONFIRM", "CANCEL" >>

build_main_menu_keyboard ==
  { << "CAT" >> \o cat : cat \in Categories } \cup { MY_DOCS }

build_template_keyboard(category) ==
  { << "TPL" >> \o category \o tpl : tpl \in SeqToSet(TEMPLATES(category)) }
    \cup { BACK_MAIN }

build_skip_keyboard == { SKIP }

build_confirm_keyboard == { CONFIRM_YES, CONFIRM_EDIT, CONFIRM_CANCEL }

provinces ==
  << "ON", "QC", "BC", "AB", "MB", "SK", "NS", "NB", "NL", "PE", "NT", "YT",
     "NU" >>

build_province_keyboard == { << "PROV", prov >> : prov \in SeqToSet(provinces) }

EmploymentTypes == { "Full-time", "Part-time", "Contract" }

build_employment_type_keyboard == { << "EMPTYPE", t >> : t \in EmploymentTypes }

\* the keyboard show_my_documents sends
MyDocumentsKeyboard == { BACK_MAIN }

\* every button the program can ever have put into a chat
AllButtons ==
  build_main_menu_keyboard
    \cup UNION { build_template_keyboard(cat) : cat \in Categories }
    \cup build_skip_keyboard \cup build_confirm_keyboard
    \cup build_province_keyboard \cup build_employment_type_keyboard
    \cup MyDocumentsKeyboard

\* ------------------------------------------------------------------------
\* String operations on callback data
\* ------------------------------------------------------------------------
\* data.startswith(tag + "_"): the first piece is tag and a "_" follows it
StartsWithTag(data, tag) == Len(data) >= 2 /\ data[1] = tag

\* re.match of a literal alternative given as pieces, e.g. BACK_MAIN
StartsWithPieces(data, lit) ==
  Len(data) >= Len(lit) /\ SubSeq(data, 1, Len(lit)) = lit

\* the pieces i..Len(data) joined again with "_": still a string
Rest(data, i) == SubSeq(data, i, Len(data))

\* data.split("_", 2): at most two splits, the remainder kept whole.  The
\* third part is returned as its pieces, which stand for the joined string.
split2(data) ==
  IF Len(data) >= 3 THEN << << data[1] >>, << data[2] >>, Rest(data, 3) >>
  ELSE [i \in 1..Len(data) |-> << data[i] >>]

\* ------------------------------------------------------------------------
\* Updates.  kind "command": a message that is a bot command (data is the
\* command name); "text": any other text message (data its characters);
\* "callback": a pressed inline button (data its callback data).
\* ------------------------------------------------------------------------
Command(name)  == [kind |-> "command", data |-> << name >>]
Text(chars)    == [kind |-> "text", data |-> chars]
Callback(data) == [kind |-> "callback", data |-> data]

\* update.callback_query is set
HasCallbackQuery(upd) == upd.kind = "callback"

\* ------------------------------------------------------------------------
\* Database gateway (src/bot.py 227-345), for the one user of the model.
\* db.user_row: the users row exists; db.document_count: its column;
\* db.documents: number of rows of the documents table.
\* ok: get_db_connection returned a connection and no statement raised.
\* ------------------------------------------------------------------------
EmptyDb == [user_row |-> FALSE, document_count |-> 0, documents |-> 0]

save_user(d, ok) ==
  IF ~ok THEN d
  ELSE IF d.user_row THEN d
  ELSE [d EXCEPT !.user_row = TRUE, !.document_count = 0]

\* returns the new database and the id (0 stands for None)
save_document(form, d, ok) ==
  IF ~ok THEN [db |-> d, doc_id |-> 0]
  ELSE [db |-> [d EXCEPT
                  !.documents = @ + 1,
                  !.document_count =
                     IF d.user_row /\ form["user_id"] = User.id THEN @ + 1 ELSE @],
        doc_id |-> d.documents + 1]

\* ------------------------------------------------------------------------
\* generate_payroll_pdf (src/bot.py 373-458).  Amounts are in hundredths.
\* ------------------------------------------------------------------------
\* round(n / d, 2 decimals) for d > 0: the nearest hundredth.  Where the
\* decimal product lies exactly between two hundredths, round() follows the
\* binary product, which for the amounts used here lies below the middle.
round2(n, d) ==
  LET q == n \div d
      r == n % d
  IN IF 2 * r > d THEN q + 1 ELSE q

\* generate_payroll_pdf with the income tax rate following the date
generate_payroll_pdf_rate_by_date(data, now) ==
  LET p     == ParseAmount(data["salary"])
      gross == IF p.ok THEN p.cents ELSE 0
      cpp   == round2(gross * 595, 10000)
      ei    == round2(gross * 163, 10000)
      tax   == round2(gross * (IF now = "2025-01-01 10:00" THEN 15 ELSE 16), 100)
      net   == gross - cpp - ei - tax
  IN [employer |-> << data["employer_name"], data["pay_period"], data["province"] >>,
      employee |-> << data["first_name"], data["last_name"], data["address"],
                      data["unit"], data["city"], data["postal_code"],
                      data["phone"] >>,
      gross |-> gross,
      deductions |-> << << "CPP/RPC", cpp >>, << "EI/AE", ei >>,
                        << "Income Tax / Impot", tax >> >>,
      net |-> net,
      generated_on |-> now]

\* What the pay stub shows: the employer and employee tables, the earnings
\* table (gross, the deduction rows, net) and the footer with
\* datetime.now().  gross is float() of the salary without "," and "$",
\* 0 when float() raises; cpp, ei and tax are gross times 0.0595, 0.0163 and
\* 0.15, each rounded; net is gross less the three, rounded.
generate_payroll_pdf(data, now) ==
  LET p     == ParseAmount(data["salary"])
      gross == IF p.ok THEN p.cents ELSE 0
      cpp   == round2(gross * 595, 10000)
      ei    == round2(gross * 163, 10000)
      tax   == round2(gross * 15, 100)
      net   == gross - cpp - ei - tax
  IN [employer |-> << data["employer_name"], data["pay_period"], data["province"] >>,
      employee |-> << data["first_name"], data["last_name"], data["address"],
                      data["unit"], data["city"], data["postal_code"],
                      data["phone"] >>,
      gross |-> gross,
      deductions |-> << << "CPP/RPC", cpp >>, << "EI/AE", ei >>,
                        << "Income Tax / Impot", tax >> >>,
      net |-> net,
      generated_on |-> now]

\* ------------------------------------------------------------------------
\* generate_t4_pdf (src/bot.py 671-678): the four amounts of the income
\* boxes, in hundredths.  The four conversions share one try block: when
\* any of them raises, the bare except sets all four amounts to 0.  An
\* empty contribution, premium or tax is 0 without a conversion.
\* ------------------------------------------------------------------------
generate_t4_pdf(data) ==
  LET OrZero(s) == IF s # Empty THEN ParseAmount(s) ELSE [ok |-> TRUE, cents |-> 0]
      income == ParseAmount(data["employment_income"])
      cpp    == OrZero(data["cpp_contribution"])
      ei     == OrZero(data["ei_premium"])
      tax    == OrZero(data["tax_deducted"])
  IN IF income.ok /\ cpp.ok /\ ei.ok /\ tax.ok
     THEN [employment_income |-> income.cents, cpp_contribution |-> cpp.cents,
           ei_premium |-> ei.cents, tax_deducted |-> tax.cents]
     ELSE [employment_income |-> 0, cpp_contribution |-> 0,
           ei_premium |-> 0, tax_deducted |-> 0]

\* ------------------------------------------------------------------------
\* generate_pdf (src/bot.py 829-842): the generator the category routes to
\* ------------------------------------------------------------------------
generate_pdf(data) ==
  IF data["category"] = << "payroll" >> THEN "generate_payroll_pdf"
  ELSE IF data["category"] = << "bank" >> THEN "generate_bank_statement_pdf"
  ELSE IF data["category"] = << "bill" >> THEN "generate_bill_pdf"
  ELSE IF data["category"] = << "t4" >> THEN "generate_t4_pdf"
  ELSE IF data["category"] = << "employment", "letter" >>
       THEN "generate_employment_letter_pdf"
  ELSE "generate_payroll_pdf"

\* ------------------------------------------------------------------------
\* Handlers.  Each takes the update, context.user_data, the database and the
\* outcome of the collaborators it calls (env.dbOk, env.pdfOk)
\* and yields user_data and the database afterwards, the state it returns,
\* the collaborator calls it made in order, and the message it sent.
\* ------------------------------------------------------------------------
Result(ud, d, ret, calls, reply) ==
  [ud |-> ud, db |-> d, ret |-> ret, calls |-> calls, reply |-> reply]

\* Store that also forgets the template
Store_resetting_template(ud, field, value) ==
  SetForm([GetForm(ud) EXCEPT ![field] = value, !["template_id"] = Empty])

\* form.<field> = value; context.user_data["form"] = form
Store(ud, field, value) == SetForm([GetForm(ud) EXCEPT ![field] = value])

\* start that keeps the form the user already has
start_keeping_form(upd, ud, d, env) ==
  Result(IF ud.has THEN ud ELSE SetForm(FormData(User.id, User.username)),
         save_user(d, env.dbOk),
         "MAIN_MENU", << "save_user" >>, "main_menu")

start(upd, ud, d, env) ==
  Result(SetForm(FormData(User.id, User.username)),
         save_user(d, env.dbOk),
         "MAIN_MENU", << "save_user" >>, "main_menu")

show_my_documents(upd, ud, d, env) ==
  Result(ud, d, "MAIN_MENU", << "get_user_documents" >>, "my_documents")

\* data.replace(tag + "_", ""): every piece tag that a "_" follows is removed
RECURSIVE replace_tag(_, _)
replace_tag(data, tag) ==
  IF Len(data) < 2 THEN data
  ELSE IF Head(data) = tag THEN replace_tag(Tail(data), tag)
       ELSE << Head(data) >> \o replace_tag(Tail(data), tag)

handle_category(upd, ud, d, env) ==
  IF upd.data = BACK_MAIN THEN start(upd, ud, d, env)
  ELSE IF upd.data = MY_DOCS THEN show_my_documents(upd, ud, d, env)
  ELSE IF ~StartsWithTag(upd.data, "CAT")
       THEN Result(ud, d, "MAIN_MENU", << >>, "none")
  ELSE Result(Store(ud, "category", replace_tag(upd.data, "CAT")),
              d, "SELECT_TEMPLATE", << >>, "template_menu")

handle_template(upd, ud, d, env) ==
  IF upd.data = BACK_MAIN THEN start(upd, ud, d, env)
  ELSE IF ~StartsWithTag(upd.data, "TPL")
       THEN Result(ud, d, "SELECT_TEMPLATE", << >>, "none")
  ELSE LET parts == split2(upd.data) IN
       IF Len(parts) < 3 THEN Result(ud, d, "SELECT_TEMPLATE", << >>, "none")
       ELSE LET category    == parts[2]
                template_id == parts[3]
                form        == [GetForm(ud) EXCEPT !["category"] = category,
                                                   !["template_id"] = template_id]
            IN Result(SetForm(form), d, "FORM_FIRST_NAME", << >>, "ask_first_name")

\* the handlers that store the stripped text of the message and go on
TextNode(upd, ud, d, field, next, reply) ==
  Result(Store(ud, field, strip(upd.data)), d, next, << >>, reply)

handle_first_name(upd, ud, d, env) ==
  TextNode(upd, ud, d, "first_name", "FORM_LAST_NAME", "ask_last_name")

handle_last_name(upd, ud, d, env) ==
  TextNode(upd, ud, d, "last_name", "FORM_ADDRESS", "ask_address")

handle_address(upd, ud, d, env) ==
  TextNode(upd, ud, d, "address", "FORM_CITY", "ask_city")

\* handle_city asking for the unit next, leaving the postal code out
handle_city_skipping_postal_code(upd, ud, d, env) ==
  TextNode(upd, ud, d, "city", "FORM_UNIT", "ask_unit")

handle_city(upd, ud, d, env) ==
  TextNode(upd, ud, d, "city", "FORM_POSTAL_CODE", "ask_postal_code")

handle_postal_code(upd, ud, d, env) ==
  TextNode(upd, ud, d, "postal_code", "FORM_UNIT", "ask_unit")

\* SkipNode storing the data of the button pressed
SkipNode_storing_button(upd, ud, d, field, next, reply) ==
  Result(Store(ud, field,
               IF HasCallbackQuery(upd) THEN upd.data ELSE strip(upd.data)),
         d, next, << >>, reply)

\* the handlers of optional nodes: the SKIP button stores "", a message its
\* stripped text
SkipNode(upd, ud, d, field, next, reply) ==
  Result(Store(ud, field,
               IF HasCallbackQuery(upd) THEN Empty ELSE strip(upd.data)),
         d, next, << >>, reply)

handle_unit(upd, ud, d, env) ==
  SkipNode(upd, ud, d, "unit", "FORM_PHONE", "ask_phone")

\* show_confirmation: sends the summary and the confirm keyboard
show_confirmation(upd, ud, d, env) ==
  Result(ud, d, "CONFIRM", << >>, "confirmation")

\* handle_phone sending the simplified pay stub straight to the confirmation
handle_phone_by_template(upd, ud, d, env) ==
  LET ud2  == Store(ud, "phone",
                    IF HasCallbackQuery(upd) THEN Empty ELSE strip(upd.data))
      form == GetForm(ud2)
  IN IF form["category"] = << "payroll" >>
       THEN IF form["template_id"] = << "pay", "simple" >>
            THEN show_confirmation(upd, ud2, d, env)
            ELSE Result(ud2, d, "PAYROLL_EMPLOYER", << >>, "ask_employer")
     ELSE IF form["category"] = << "bank" >>
       THEN Result(ud2, d, "BANK_NAME", << >>, "ask_bank_name")
     ELSE IF form["category"] = << "bill" >>
       THEN Result(ud2, d, "BILL_COMPANY", << >>, "ask_company")
     ELSE IF form["category"] = << "t4" >>
       THEN Result(ud2, d, "T4_EMPLOYER_NAME", << >>, "ask_employer")
     ELSE IF form["category"] = << "employment", "letter" >>
       THEN Result(ud2, d, "LETTER_EMPLOYER_NAME", << >>, "ask_employer")
     ELSE show_confirmation(upd, ud2, d, env)

handle_phone(upd, ud, d, env) ==
  LET ud2  == Store(ud, "phone",
                    IF HasCallbackQuery(upd) THEN Empty ELSE strip(upd.data))
      form == GetForm(ud2)
  IN IF form["category"] = << "payroll" >>
       THEN Result(ud2, d, "PAYROLL_EMPLOYER", << >>, "ask_employer")
     ELSE IF form["category"] = << "bank" >>
       THEN Result(ud2, d, "BANK_NAME", << >>, "ask_bank_name")
     ELSE IF form["category"] = << "bill" >>
       THEN Result(ud2, d, "BILL_COMPANY", << >>, "ask_company")
     ELSE IF form["category"] = << "t4" >>
       THEN Result(ud2, d, "T4_EMPLOYER_NAME", << >>, "ask_employer")
     ELSE IF form["category"] = << "employment", "letter" >>
       THEN Result(ud2, d, "LETTER_EMPLOYER_NAME", << >>, "ask_employer")
     ELSE show_confirmation(upd, ud2, d, env)

\* Payroll handlers (src/bot.py 1106-1137)
handle_payroll_employer(upd, ud, d, env) ==
  TextNode(upd, ud, d, "employer_name", "PAYROLL_SALARY", "ask_salary")

\* handle_payroll_salary asking for the province next, without the period
handle_payroll_salary_asking_province(upd, ud, d, env) ==
  TextNode(upd, ud, d, "salary", "PAYROLL_PROVINCE", "ask_province")

handle_payroll_salary(upd, ud, d, env) ==
  TextNode(upd, ud, d, "salary", "PAYROLL_PERIOD", "ask_pay_period")

handle_payroll_period(upd, ud, d, env) ==
  TextNode(upd, ud, d, "pay_period", "PAYROLL_PROVINCE", "ask_province")

\* the value an enumerated-choice handler stores: the button's data without
\* its tag, or the stripped text of a message
ChoiceValue(upd, tag) ==
  IF HasCallbackQuery(upd) THEN replace_tag(upd.data, tag) ELSE strip(upd.data)

handle_payroll_province(upd, ud, d, env) ==
  show_confirmation(upd, Store(ud, "province", ChoiceValue(upd, "PROV")), d, env)

\* Bank handlers (src/bot.py 1140-1158)
handle_bank_name(upd, ud, d, env) ==
  TextNode(upd, ud, d, "bank_name", "BANK_ACCOUNT", "ask_account")

\* handle_bank_account asking for the bank name again
handle_bank_account_asking_name(upd, ud, d, env) ==
  TextNode(upd, ud, d, "account_number", "BANK_NAME", "ask_bank_name")

handle_bank_account(upd, ud, d, env) ==
  TextNode(upd, ud, d, "account_number", "BANK_BALANCE", "ask_balance")

\* handle_bank_balance going on to the declared state BANK_TRANSACTIONS
handle_bank_balance_asking_transactions(upd, ud, d, env) ==
  TextNode(upd, ud, d, "balance", "BANK_TRANSACTIONS", "ask_transactions")

handle_bank_balance(upd, ud, d, env) ==
  show_confirmation(upd, Store(ud, "balance", strip(upd.data)), d, env)

\* handle_bill_company asking for the amount next, without the service type
handle_bill_company_asking_amount(upd, ud, d, env) ==
  TextNode(upd, ud, d, "company_name", "BILL_AMOUNT", "ask_amount")

\* Bill handlers (src/bot.py 1161-1186)
handle_bill_company(upd, ud, d, env) ==
  TextNode(upd, ud, d, "company_name", "BILL_SERVICE", "ask_service")

handle_bill_service(upd, ud, d, env) ==
  TextNode(upd, ud, d, "service_type", "BILL_AMOUNT", "ask_amount")

handle_bill_amount(upd, ud, d, env) ==
  TextNode(upd, ud, d, "amount", "BILL_DUE_DATE", "ask_due_date")

handle_bill_due_date(upd, ud, d, env) ==
  show_confirmation(upd, Store(ud, "due_date", strip(upd.data)), d, env)

\* T4 handlers (src/bot.py 1189-1272)
handle_t4_employer_name(upd, ud, d, env) ==
  TextNode(upd, ud, d, "t4_employer_name", "T4_EMPLOYER_BN", "ask_employer_bn")

handle_t4_employer_bn(upd, ud, d, env) ==
  TextNode(upd, ud, d, "t4_employer_bn", "T4_YEAR", "ask_tax_year")

handle_t4_year(upd, ud, d, env) ==
  TextNode(upd, ud, d, "tax_year", "T4_PROVINCE", "ask_province")

handle_t4_province(upd, ud, d, env) ==
  Result(Store(ud, "t4_province", ChoiceValue(upd, "PROV")),
         d, "T4_EMPLOYMENT_INCOME", << >>, "ask_employment_income")

handle_t4_employment_income(upd, ud, d, env) ==
  TextNode(upd, ud, d, "employment_income", "T4_CPP_CONTRIBUTION", "ask_cpp")

handle_t4_cpp(upd, ud, d, env) ==
  SkipNode(upd, ud, d, "cpp_contribution", "T4_EI_PREMIUM", "ask_ei")

handle_t4_ei(upd, ud, d, env) ==
  SkipNode(upd, ud, d, "ei_premium", "T4_TAX_DEDUCTED", "ask_tax_deducted")

handle_t4_tax(upd, ud, d, env) ==
  show_confirmation(
    upd,
    Store(ud, "tax_deducted",
          IF HasCallbackQuery(upd) THEN Empty ELSE strip(upd.data)),
    d, env)

\* Employment letter handlers (src/bot.py 1275-1348)
handle_letter_employer_name(upd, ud, d, env) ==
  TextNode(upd, ud, d, "letter_employer_name", "LETTER_EMPLOYER_ADDRESS",
           "ask_employer_address")

handle_letter_employer_address(upd, ud, d, env) ==
  TextNode(upd, ud, d, "letter_employer_address", "LETTER_JOB_TITLE",
           "ask_job_title")

handle_letter_job_title(upd, ud, d, env) ==
  TextNode(upd, ud, d, "job_title", "LETTER_START_DATE", "ask_start_date")

handle_letter_start_date(upd, ud, d, env) ==
  TextNode(upd, ud, d, "start_date", "LETTER_SALARY", "ask_letter_salary")

handle_letter_salary(upd, ud, d, env) ==
  TextNode(upd, ud, d, "letter_salary", "LETTER_EMPLOYMENT_TYPE",
           "ask_employment_type")

handle_letter_employment_type(upd, ud, d, env) ==
  LET ud2 == Store(ud, "employment_type", ChoiceValue(upd, "EMPTYPE")) IN
  IF GetForm(ud2)["template_id"] = << "letter", "termination" >>
  THEN Result(ud2, d, "LETTER_END_DATE", << >>, "ask_end_date")
  ELSE Result(ud2, d, "LETTER_PURPOSE", << >>, "ask_purpose")

handle_letter_end_date(upd, ud, d, env) ==
  TextNode(upd, ud, d, "end_date", "LETTER_PURPOSE", "ask_purpose")

handle_letter_purpose(upd, ud, d, env) ==
  show_confirmation(
    upd,
    Store(ud, "letter_purpose",
          IF HasCallbackQuery(upd) THEN Empty ELSE strip(upd.data)),
    d, env)

\* handle_confirmation with CONFIRM_EDIT restarting the wizard itself, as
\* BACK_MAIN does in the two menus
handle_confirmation_edit_restarts(upd, ud, d, env) ==
  IF upd.data = CONFIRM_CANCEL THEN Result(ud, d, END, << >>, "cancelled")
  ELSE IF upd.data = CONFIRM_EDIT THEN start(upd, ud, d, env)
  ELSE IF upd.data = CONFIRM_YES THEN
    LET form == GetForm(ud)
        gen  == generate_pdf(form)
        sd   == save_document(form, d, env.dbOk)
    IN IF ~env.pdfOk
       THEN Result(ud, d, END, << "generate_pdf", gen >>, "error")
       ELSE Result(ud, sd.db, END,
                   << "generate_pdf", gen, "save_document", "reply_document" >>,
                   IF sd.doc_id = 0 THEN "document_id_na" ELSE "document")
  ELSE Result(ud, d, "CONFIRM", << >>, "none")

\* handle_confirmation generating for every button but CONFIRM_CANCEL
handle_confirmation_unless_cancel(upd, ud, d, env) ==
  IF upd.data = CONFIRM_CANCEL THEN Result(ud, d, END, << >>, "cancelled")
  ELSE
    LET form == GetForm(ud)
        gen  == generate_pdf(form)
        sd   == save_document(form, d, env.dbOk)
    IN IF ~env.pdfOk
       THEN Result(ud, d, END, << "generate_pdf", gen >>, "error")
       ELSE Result(ud, sd.db, END,
                   << "generate_pdf", gen, "save_document", "reply_document" >>,
                   IF sd.doc_id = 0 THEN "document_id_na" ELSE "document")

\* handle_confirmation keeping the conversation at CONFIRM when a
\* collaborator failed, so that the button can be pressed again
handle_confirmation_retry_on_failure(upd, ud, d, env) ==
  IF upd.data = CONFIRM_CANCEL THEN Result(ud, d, END, << >>, "cancelled")
  ELSE IF upd.data = CONFIRM_EDIT THEN Result(ud, d, END, << >>, "use_start")
  ELSE IF upd.data = CONFIRM_YES THEN
    LET form == GetForm(ud)
        gen  == generate_pdf(form)
        sd   == save_document(form, d, env.dbOk)
    IN IF ~env.pdfOk
       THEN Result(ud, d, "CONFIRM", << "generate_pdf", gen >>, "error")
       ELSE Result(ud, sd.db, IF sd.doc_id = 0 THEN "CONFIRM" ELSE END,
                   << "generate_pdf", gen, "save_document", "reply_document" >>,
                   IF sd.doc_id = 0 THEN "document_id_na" ELSE "document")
  ELSE Result(ud, d, "CONFIRM", << >>, "none")

\* handle_confirmation storing the record before it generates the document
handle_confirmation_saving_first(upd, ud, d, env) ==
  IF upd.data = CONFIRM_CANCEL THEN Result(ud, d, END, << >>, "cancelled")
  ELSE IF upd.data = CONFIRM_EDIT THEN Result(ud, d, END, << >>, "use_start")
  ELSE IF upd.data = CONFIRM_YES THEN
    LET form == GetForm(ud)
        gen  == generate_pdf(form)
        sd   == save_document(form, d, env.dbOk)
    IN IF ~env.pdfOk
       THEN Result(ud, sd.db, END, << "save_document", "generate_pdf", gen >>,
                   "error")
       ELSE Result(ud, sd.db, END,
                   << "save_document", "generate_pdf", gen, "reply_document" >>,
                   IF sd.doc_id = 0 THEN "document_id_na" ELSE "document")
  ELSE Result(ud, d, "CONFIRM", << >>, "none")

\* handle_confirmation leaving the conversation at CONFIRM after CONFIRM_YES
handle_confirmation_staying_open(upd, ud, d, env) ==
  IF upd.data = CONFIRM_CANCEL THEN Result(ud, d, END, << >>, "cancelled")
  ELSE IF upd.data = CONFIRM_EDIT THEN Result(ud, d, END, << >>, "use_start")
  ELSE IF upd.data = CONFIRM_YES THEN
    LET form == GetForm(ud)
        gen  == generate_pdf(form)
        sd   == save_document(form, d, env.dbOk)
    IN IF ~env.pdfOk
       THEN Result(ud, d, "CONFIRM", << "generate_pdf", gen >>, "error")
       ELSE Result(ud, sd.db, "CONFIRM",
                   << "generate_pdf", gen, "save_document", "reply_document" >>,
                   IF sd.doc_id = 0 THEN "document_id_na" ELSE "document")
  ELSE Result(ud, d, "CONFIRM", << >>, "none")

\* Confirmation (src/bot.py 1388-1437).  CONFIRM_YES: generate_pdf, then
\* save_document, then reply_document, all inside one try; an exception of
\* generate_pdf skips the rest and is reported to the user.
handle_confirmation(upd, ud, d, env) ==
  IF upd.data = CONFIRM_CANCEL THEN Result(ud, d, END, << >>, "cancelled")
  ELSE IF upd.data = CONFIRM_EDIT THEN Result(ud, d, END, << >>, "use_start")
  ELSE IF upd.data = CONFIRM_YES THEN
    LET form == GetForm(ud)
        gen  == generate_pdf(form)
        sd   == save_document(form, d, env.dbOk)
    IN IF ~env.pdfOk
       THEN Result(ud, d, END, << "generate_pdf", gen >>, "error")
       ELSE Result(ud, sd.db, END,
                   << "generate_pdf", gen, "save_document", "reply_document" >>,
                   IF sd.doc_id = 0 THEN "document_id_na" ELSE "document")
  ELSE Result(ud, d, "CONFIRM", << >>, "none")

\* cancel that also throws the form away
cancel_clearing_form(upd, ud, d, env) ==
  Result([has |-> FALSE, form |-> DefaultFormData], d, END, << >>, "cancelled")

cancel(upd, ud, d, env) == Result(ud, d, END, << >>, "cancelled")

\* ------------------------------------------------------------------------
\* The ConversationHandler of main() (src/bot.py 1477-1608)
\* ------------------------------------------------------------------------
\* MessageHandler(filters.TEXT & ~filters.COMMAND, callback)
OnText(callback) == [on |-> "text", tags |-> {}, lits |-> {}, callback |-> callback]

\* CallbackQueryHandler(callback, pattern): the pattern is anchored at the
\* start; tags are its alternatives "TAG_", lits its literal alternatives
OnButton(callback, tags, lits) ==
  [on |-> "callback", tags |-> tags, lits |-> lits, callback |-> callback]

\* CommandHandler(name, callback)
OnCommand(name, callback) ==
  [on |-> "command", tags |-> {}, lits |-> { << name >> }, callback |-> callback]

entry_points == << OnCommand("start", "start") >>

\* a conversation handler built without fallbacks
fallbacks_missing == << >>

fallbacks == << OnCommand("cancel", "cancel") >>

\* the text handler of a state followed by a button handler of the same callback
TextAndButton(callback, tags, lits) ==
  << OnText(callback), OnButton(callback, tags, lits) >>

states(s) ==
  CASE s = "MAIN_MENU" ->
         << OnButton("handle_category", { "CAT" }, { MY_DOCS, BACK_MAIN }) >>
    [] s = "SELECT_TEMPLATE" ->
         << OnButton("handle_template", { "TPL" }, { BACK_MAIN }) >>
    [] s = "FORM_FIRST_NAME"  -> << OnText("handle_first_name") >>
    [] s = "FORM_LAST_NAME"   -> << OnText("handle_last_name") >>
    [] s = "FORM_ADDRESS"     -> << OnText("handle_address") >>
    [] s = "FORM_CITY"        -> << OnText("handle_city") >>
    [] s = "FORM_POSTAL_CODE" -> << OnText("handle_postal_code") >>
    [] s = "FORM_UNIT"        -> TextAndButton("handle_unit", {}, { SKIP })
    [] s = "FORM_PHONE"       -> TextAndButton("handle_phone", {}, { SKIP })
    [] s = "PAYROLL_EMPLOYER" -> << OnText("handle_payroll_employer") >>
    [] s = "PAYROLL_SALARY"   -> << OnText("handle_payroll_salary") >>
    [] s = "PAYROLL_PERIOD"   -> << OnText("handle_payroll_period") >>
    [] s = "PAYROLL_PROVINCE" ->
         TextAndButton("handle_payroll_province", { "PROV" }, {})
    [] s = "BANK_NAME"        -> << OnText("handle_bank_name") >>
    [] s = "BANK_ACCOUNT"     -> << OnText("handle_bank_account") >>
    [] s = "BANK_BALANCE"     -> << OnText("handle_bank_balance") >>
    [] s = "BILL_COMPANY"     -> << OnText("handle_bill_company") >>
    [] s = "BILL_SERVICE"     -> << OnText("handle_bill_service") >>
    [] s = "BILL_AMOUNT"      -> << OnText("handle_bill_amount") >>
    [] s = "BILL_DUE_DATE"    -> << OnText("handle_bill_due_date") >>
    [] s = "T4_EMPLOYER_NAME" -> << OnText("handle_t4_employer_name") >>
    [] s = "T4_EMPLOYER_BN"   -> << OnText("handle_t4_employer_bn") >>
    [] s = "T4_YEAR"          -> << OnText("handle_t4_year") >>
    [] s = "T4_PROVINCE" ->
         TextAndButton("handle_t4_province", { "PROV" }, {})
    [] s = "T4_EMPLOYMENT_INCOME" -> << OnText("handle_t4_employment_income") >>
    [] s = "T4_CPP_CONTRIBUTION"  -> TextAndButton("handle_t4_cpp", {}, { SKIP })
    [] s = "T4_EI_PREMIUM"        -> TextAndButton("handle_t4_ei", {}, { SKIP })
    [] s = "T4_TAX_DEDUCTED"      -> TextAndButton("handle_t4_tax", {}, { SKIP })
    [] s = "LETTER_EMPLOYER_NAME" -> << OnText("handle_letter_employer_name") >>
    [] s = "LETTER_EMPLOYER_ADDRESS" ->
         << OnText("handle_letter_employer_address") >>
    [] s = "LETTER_JOB_TITLE"  -> << OnText("handle_letter_job_title") >>
    [] s = "LETTER_START_DATE" -> << OnText("handle_letter_start_date") >>
    [] s = "LETTER_SALARY"     -> << OnText("handle_letter_salary") >>
    [] s = "LETTER_EMPLOYMENT_TYPE" ->
         TextAndButton("handle_letter_employment_type", { "EMPTYPE" }, {})
    [] s = "LETTER_END_DATE"   -> << OnText("handle_letter_end_date") >>
    [] s = "LETTER_PURPOSE"    -> TextAndButton("handle_letter_purpose", {}, { SKIP })
    [] s = "CONFIRM" ->
         << OnButton("handle_confirmation", { "CONFIRM" }, {}) >>
    [] OTHER -> << >>

\* handler.check_update(update).  A literal of a button pattern is matched
\* as a prefix; "^SKIP$" and the literals of the other patterns are the
\* whole data of every button they can match.
Matches(h, upd) ==
  /\ h.on = upd.kind
  /\ \/ h.on = "text"
     \/ h.on = "command" /\ upd.data \in h.lits
     \/ h.on = "callback"
          /\ \/ \E tag \in h.tags : StartsWithTag(upd.data, tag)
             \/ \E lit \in h.lits : StartsWithPieces(upd.data, lit)

\* the callback of the first handler of the list that accepts the update,
\* "none" when none does
FirstMatch(handlers, upd) ==
  IF \E i \in DOMAIN handlers : Matches(handlers[i], upd)
  THEN handlers[CHOOSE i \in DOMAIN handlers :
                  /\ Matches(handlers[i], upd)
                  /\ \A j \in 1..(i - 1) : ~Matches(handlers[j], upd)].callback
  ELSE "none"

\* the function the callback name stands for
Call(callback, upd, ud, d, env) ==
  CASE callback = "start" -> start(upd, ud, d, env)
    [] callback = "cancel" -> cancel(upd, ud, d, env)
    [] callback = "handle_category" -> handle_category(upd, ud, d, env)
    [] callback = "handle_template" -> handle_template(upd, ud, d, env)
    [] callback = "handle_first_name" -> handle_first_name(upd, ud, d, env)
    [] callback = "handle_last_name" -> handle_last_name(upd, ud, d, env)
    [] callback = "handle_address" -> handle_address(upd, ud, d, env)
    [] callback = "handle_city" -> handle_city(upd, ud, d, env)
    [] callback = "handle_postal_code" -> handle_postal_code(upd, ud, d, env)
    [] callback = "handle_unit" -> handle_unit(upd, ud, d, env)
    [] callback = "handle_phone" -> handle_phone(upd, ud, d, env)
    [] callback = "handle_payroll_employer" -> handle_payroll_employer(upd, ud, d, env)
    [] callback = "handle_payroll_salary" -> handle_payroll_salary(upd, ud, d, env)
    [] callback = "handle_payroll_period" -> handle_payroll_period(upd, ud, d, env)
    [] callback = "handle_payroll_province" -> handle_payroll_province(upd, ud, d, env)
    [] callback = "handle_bank_name" -> handle_bank_name(upd, ud, d, env)
    [] callback = "handle_bank_account" -> handle_bank_account(upd, ud, d, env)
    [] callback = "handle_bank_balance" -> handle_bank_balance(upd, ud, d, env)
    [] callback = "handle_bill_company" -> handle_bill_company(upd, ud, d, env)
    [] callback = "handle_bill_service" -> handle_bill_service(upd, ud, d, env)
    [] callback = "handle_bill_amount" -> handle_bill_amount(upd, ud, d, env)
    [] callback = "handle_bill_due_date" -> handle_bill_due_date(upd, ud, d, env)
    [] callback = "handle_t4_employer_name" -> handle_t4_employer_name(upd, ud, d, env)
    [] callback = "handle_t4_employer_bn" -> handle_t4_employer_bn(upd, ud, d, env)
    [] callback = "handle_t4_year" -> handle_t4_year(upd, ud, d, env)
    [] callback = "handle_t4_province" -> handle_t4_province(upd, ud, d, env)
    [] callback = "handle_t4_employment_income" ->
         handle_t4_employment_income(upd, ud, d, env)
    [] callback = "handle_t4_cpp" -> handle_t4_cpp(upd, ud, d, env)
    [] callback = "handle_t4_ei" -> handle_t4_ei(upd, ud, d, env)
    [] callback = "handle_t4_tax" -> handle_t4_tax(upd, ud, d, env)
    [] callback = "handle_letter_employer_name" ->
         handle_letter_employer_name(upd, ud, d, env)
    [] callback = "handle_letter_employer_address" ->
         handle_letter_employer_address(upd, ud, d, env)
    [] callback = "handle_letter_job_title" -> handle_letter_job_title(upd, ud, d, env)
    [] callback = "handle_letter_start_date" -> handle_letter_start_date(upd, ud, d, env)
    [] callback = "handle_letter_salary" -> handle_letter_salary(upd, ud, d, env)
    [] callback = "handle_letter_employment_type" ->
         handle_letter_employment_type(upd, ud, d, env)
    [] callback = "handle_letter_end_date" -> handle_letter_end_date(upd, ud, d, env)
    [] callback = "handle_letter_purpose" -> handle_letter_purpose(upd, ud, d, env)
    [] callback = "handle_confirmation" -> handle_confirmation(upd, ud, d, env)

\* ------------------------------------------------------------------------
\* State
\* ------------------------------------------------------------------------
VARIABLES
  conv,       \* ConversationHandler._conversations: chat -> state (None: no key)
  user_data,  \* context.user_data of the user: has the "form" key, and its value
  db,         \* the users row and the documents table
  last,       \* the update delivered last, the outcomes of the collaborators
              \* during it, and what its handler did
  session,    \* per chat, since its last start: the category picked at
              \* MAIN_MENU and the states whose handler accepted an answer
  pending,    \* the callback that has returned and whose returned state the
              \* ConversationHandler has not stored yet
  calc        \* the last two pay stubs generate_payroll_pdf was asked for,
              \* each with the form and the time it was given

vars == << conv, user_data, db, last, session, pending, calc >>

\* the chats the user can write from; the conversation key is (chat, user)
Chats == { "chat1", "chat2" }

MainChat == "chat1"

\* ------------------------------------------------------------------------
\* Inputs
\* ------------------------------------------------------------------------
AmountNodes == { "PAYROLL_SALARY", "BANK_BALANCE", "BILL_AMOUNT" }

\* the text messages sent while the conversation is in state s
Answers(s) ==
  CASE s = "FORM_LAST_NAME" -> { Padded }
    [] s = "BILL_COMPANY" -> { Ann, Blank }
    [] s = "FORM_UNIT" -> { Blank }
    [] s = "PAYROLL_SALARY" -> { Abc, Zero, Minus5, Amt15050 }
    [] s \in AmountNodes -> { Abc, Zero, Amt15050 }
    [] s \in { "PAYROLL_PROVINCE", "T4_PROVINCE" } -> { Ontario }
    [] s = "T4_EMPLOYMENT_INCOME" -> { Abc, Amt15050 }
    [] s \in { "T4_CPP_CONTRIBUTION", "T4_EI_PREMIUM" } -> { Amt15050 }
    [] s = "T4_TAX_DEDUCTED" -> { Abc }
    [] OTHER -> { Ann }

TemplateButtons == UNION { build_template_keyboard(cat) : cat \in Categories }

\* The buttons pressed in any state, current or left over from an earlier
\* message of the chat: every button but the province and template buttons,
\* two of the thirteen province buttons and one template button.
Pressed ==
  (AllButtons \ (build_province_keyboard \cup TemplateButtons))
    \cup { BACK_MAIN, << "PROV", "ON" >>, << "PROV", "QC" >>,
           << "TPL", "bank", "bank", "monthly" >> }

\* the keyboard handle_category has just sent when the state is SELECT_TEMPLATE
CurrentKeyboard(s, form) ==
  IF s = "SELECT_TEMPLATE" THEN build_template_keyboard(form["category"]) ELSE {}

\* the updates the user sends while the conversation is in state s
Updates(s, form) ==
  { Command(n) : n \in { "start", "cancel" } }
    \cup { Text(t) : t \in Answers(s) }
    \cup { Callback(b) : b \in Pressed \cup CurrentKeyboard(s, form) }

\* what is recorded of an update that no handler accepted
Unhandled(upd) ==
  IF upd.kind = "command" THEN upd ELSE [kind |-> upd.kind, data |-> Empty]

Bool == { TRUE, FALSE }

AllOk == [dbOk |-> TRUE, pdfOk |-> TRUE]

\* The outcomes of the collaborators a callback calls.  The generator and
\* save_document may fail at the proceed transition, and save_user when the
\* start command is handled (get_db_connection returns None or a statement
\* raises).
Envs(callback) ==
  IF callback = "handle_confirmation" THEN [dbOk : Bool, pdfOk : Bool]
  ELSE IF callback = "start" THEN [dbOk : Bool, pdfOk : { TRUE }]
  ELSE { AllOk }

\* ------------------------------------------------------------------------
\* ConversationHandler.check_update / handle_update / _update_state
\* ------------------------------------------------------------------------
\* check_update: entry points when the key has no state (allow_reentry is
\* False), otherwise the handlers of the state and then the fallbacks
Select(state, upd) ==
  IF state = None THEN FirstMatch(entry_points, upd)
  ELSE IF FirstMatch(states(state), upd) # "none"
       THEN FirstMatch(states(state), upd)
       ELSE FirstMatch(fallbacks, upd)

\* _update_state: END deletes the key, any other value is stored
update_state(new_state) == IF new_state = END THEN None ELSE new_state

NoSession == [chosen |-> Empty, answered |-> {}]

\* The record of the chat's session after an update was handled in state s
\* with result r: the main menu opens a new session, a CAT_ button accepted
\* at MAIN_MENU picks the category it names, and a state whose handler moved
\* the conversation on has been answered.
Track(ses, s, upd, callback, r) ==
  IF r.reply = "main_menu" THEN NoSession
  ELSE IF s = "MAIN_MENU" /\ r.ret = "SELECT_TEMPLATE"
    THEN [ses EXCEPT !.chosen = Rest(upd.data, 2)]
  ELSE IF callback # "cancel" /\ r.ret \notin { s, END }
    THEN [ses EXCEPT !.answered = @ \cup { s }]
  ELSE ses

\* handle_update: run the callback, store what it returns
Handle(c, upd, callback) ==
  \E env \in Envs(callback) :
    LET r == Call(callback, upd, user_data, db, env) IN
    /\ r.db.documents <= MaxDocs
    /\ conv' = [conv EXCEPT ![c] = update_state(r.ret)]
    /\ user_data' = r.ud
    /\ db' = r.db
    /\ last' = [chat |-> c, state |-> conv[c], upd |-> upd,
                handler |-> callback, ret |-> r.ret, calls |-> r.calls,
                reply |-> r.reply, env |-> env]
    /\ session' = [session EXCEPT ![c] = Track(session[c], conv[c], upd, callback, r)]
    /\ UNCHANGED << pending, calc >>

\* an update an entry point accepts starts a conversation
EntryPoint(c) ==
  /\ conv[c] = None
  /\ \E upd \in Updates(conv[c], GetForm(user_data)) :
       /\ upd.kind = "command"
       /\ FirstMatch(entry_points, upd) # "none"
       /\ Handle(c, upd, Select(conv[c], upd))

\* an update a handler of the current state accepts
StateHandler(c) ==
  /\ conv[c] # None
  /\ \E upd \in Updates(conv[c], GetForm(user_data)) :
       /\ FirstMatch(states(conv[c]), upd) # "none"
       /\ Handle(c, upd, Select(conv[c], upd))

\* an update only a fallback accepts
Fallback(c) ==
  /\ conv[c] # None
  /\ \E upd \in Updates(conv[c], GetForm(user_data)) :
       /\ upd.kind = "command"
       /\ FirstMatch(states(conv[c]), upd) = "none"
       /\ FirstMatch(fallbacks, upd) # "none"
       /\ Handle(c, upd, Select(conv[c], upd))

\* an update no handler accepts: check_update returns None, nothing runs
NoHandler(c) ==
  /\ \E u \in { Unhandled(upd) : upd \in
                   { x \in Updates(conv[c], GetForm(user_data)) :
                       Select(conv[c], x) = "none" } } :
       last' = [chat |-> c, state |-> conv[c], upd |-> u, handler |-> "none",
                ret |-> conv[c], calls |-> << >>, reply |-> "none",
                env |-> AllOk]
  /\ UNCHANGED << conv, user_data, db, session, pending, calc >>

\* ApplicationBuilder().token(BOT_TOKEN).build() sets no concurrent_updates
\* and no handler is registered with block=False: the Application awaits
\* process_update of one update before it takes the next from the queue
concurrent_updates_on == TRUE

concurrent_updates == FALSE

NoPending == [chat |-> "none", ret |-> None, ses |-> NoSession]

\* handle_update, first half: the callback of the handler that accepts the
\* update runs, writes user_data and the database, and returns a state
CallbackRuns(c) ==
  /\ concurrent_updates \/ pending = NoPending
  /\ \E upd \in Updates(conv[c], GetForm(user_data)) :
       /\ Select(conv[c], upd) # "none"
       /\ \E env \in Envs(Select(conv[c], upd)) :
            LET callback == Select(conv[c], upd)
                r == Call(callback, upd, user_data, db, env) IN
            /\ r.db.documents <= MaxDocs
            /\ user_data' = r.ud
            /\ db' = r.db
            /\ last' = [chat |-> c, state |-> conv[c], upd |-> upd,
                        handler |-> callback, ret |-> r.ret,
                        calls |-> r.calls, reply |-> r.reply, env |-> env]
            /\ pending' = [chat |-> c, ret |-> r.ret,
                           ses |-> Track(session[c], conv[c], upd, callback, r)]
  /\ UNCHANGED << conv, session, calc >>

\* handle_update, second half: _update_state stores the returned state
StateUpdated ==
  /\ pending # NoPending
  /\ conv' = [conv EXCEPT ![pending.chat] = update_state(pending.ret)]
  /\ session' = [session EXCEPT ![pending.chat] = pending.ses]
  /\ pending' = NoPending
  /\ UNCHANGED << user_data, db, last, calc >>

\* an update no handler accepts is dropped when its turn comes
Dropped(c) ==
  /\ concurrent_updates \/ pending = NoPending
  /\ NoHandler(c)

Init ==
  /\ conv = [c \in Chats |-> None]
  /\ user_data = [has |-> FALSE, form |-> DefaultFormData]
  /\ db = EmptyDb
  /\ last = [chat |-> MainChat, state |-> None, upd |-> Command("none"),
             handler |-> "none", ret |-> None, calls |-> << >>,
             reply |-> "none", env |-> AllOk]
  /\ session = [c \in Chats |-> NoSession]
  /\ pending = NoPending
  /\ calc = << >>

Next ==
  \/ EntryPoint(MainChat)
  \/ StateHandler(MainChat)
  \/ Fallback(MainChat)
  \/ NoHandler(MainChat)

Spec == Init /\ [][Next]_vars

\* the same program with the two halves of handle_update as separate steps
NextSteps ==
  \/ CallbackRuns(MainChat)
  \/ StateUpdated
  \/ Dropped(MainChat)

SpecSteps == Init /\ [][NextSteps]_vars

\* generate_payroll_pdf on its own: the forms it is given, one after the
\* other, differ in the salary, the pay period, the province and the
\* employer name, and the clock in the time of the call (the employer Ann
\* asks at the first time, the employer abc at the second)
Salaries ==
  { Abc, Zero, Minus5, Amt15050, AmtComma, AmtDollar, Amt2000, Amt10000,
    Amt20000 }

PayPeriods == { Weekly, Monthly }

Employers == { Ann, Abc }

ClockOf(e) == IF e = Ann THEN "2025-01-01 10:00" ELSE "2026-02-02 11:00"

PayrollForms ==
  { [FormData(User.id, User.username) EXCEPT !["category"] = << "payroll" >>,
                      !["template_id"] = << "pay", "standard" >>,
                      !["first_name"] = Ann,
                      !["last_name"] = strip(Padded),
                      !["employer_name"] = e,
                      !["salary"] = sal,
                      !["pay_period"] = per,
                      !["province"] = << prov >>] :
      e \in Employers, sal \in Salaries, per \in PayPeriods,
      prov \in { "ON", "QC" } }

\* one call of generate_payroll_pdf; the call before it is remembered
PayrollCall ==
  /\ \E data \in PayrollForms :
       LET now == ClockOf(data["employer_name"]) IN
       calc' = << [data |-> data, now |-> now,
                  out |-> generate_payroll_pdf(data, now)] >>
                 \o (IF calc = << >> THEN << >> ELSE << calc[1] >>)
  /\ UNCHANGED << conv, user_data, db, last, session, pending >>

SpecPayroll == Init /\ [][PayrollCall]_vars

\* the same program with the user writing from two chats: the conversation
\* key is (chat, user), context.user_data is the user's in both
\* each of the two conversations is followed for MaxChatAnswers answers
Within(c) == Cardinality(session'[c].answered) <= MaxChatAnswers

NextChats ==
  \E c \in Chats :
    \/ EntryPoint(c) /\ Within(c)
    \/ StateHandler(c) /\ Within(c)
    \/ Fallback(c) /\ Within(c)
    \/ NoHandler(c)

SpecChats == Init /\ [][NextChats]_vars

\* ------------------------------------------------------------------------
\* Vocabulary of the properties
\* ------------------------------------------------------------------------
\* the form the handlers read
Form == GetForm(user_data)

FreshForm == FormData(User.id, User.username)

\* category, template id and every collected field are empty
IsReset(f) ==
  /\ f["category"] = Empty
  /\ f["template_id"] = Empty
  /\ \A k \in FieldNames : f[k] = Empty

CommonNodes ==
  { "FORM_FIRST_NAME", "FORM_LAST_NAME", "FORM_ADDRESS", "FORM_CITY",
    "FORM_POSTAL_CODE", "FORM_UNIT", "FORM_PHONE" }

\* the nodes whose handler has no SKIP button
RequiredCommonNodes == CommonNodes \ { "FORM_UNIT", "FORM_PHONE" }

\* the required nodes of a category's own tier: those its handlers chain
\* through from handle_phone to show_confirmation, without the SKIP nodes
RequiredNodes(category) ==
  CASE category = << "payroll" >> ->
         { "PAYROLL_EMPLOYER", "PAYROLL_SALARY", "PAYROLL_PERIOD",
           "PAYROLL_PROVINCE" }
    [] category = << "bank" >> -> { "BANK_NAME", "BANK_ACCOUNT", "BANK_BALANCE" }
    [] category = << "bill" >> ->
         { "BILL_COMPANY", "BILL_SERVICE", "BILL_AMOUNT", "BILL_DUE_DATE" }
    [] category = << "t4" >> ->
         { "T4_EMPLOYER_NAME", "T4_EMPLOYER_BN", "T4_YEAR", "T4_PROVINCE",
           "T4_EMPLOYMENT_INCOME" }
    [] category = << "employment", "letter" >> ->
         { "LETTER_EMPLOYER_NAME", "LETTER_EMPLOYER_ADDRESS",
           "LETTER_JOB_TITLE", "LETTER_START_DATE", "LETTER_SALARY",
           "LETTER_EMPLOYMENT_TYPE" }
    [] OTHER -> {}

\* the attribute of FormData that the handler of a node writes
FieldOf(s) ==
  CASE s = "FORM_FIRST_NAME" -> "first_name"
    [] s = "FORM_LAST_NAME" -> "last_name"
    [] s = "FORM_ADDRESS" -> "address"
    [] s = "FORM_CITY" -> "city"
    [] s = "FORM_POSTAL_CODE" -> "postal_code"
    [] s = "FORM_UNIT" -> "unit"
    [] s = "FORM_PHONE" -> "phone"
    [] s = "PAYROLL_EMPLOYER" -> "employer_name"
    [] s = "PAYROLL_SALARY" -> "salary"
    [] s = "PAYROLL_PERIOD" -> "pay_period"
    [] s = "PAYROLL_PROVINCE" -> "province"
    [] s = "PAYROLL_HOURS" -> "hours"
    [] s = "PAYROLL_RATE" -> "hourly_rate"
    [] s = "BANK_NAME" -> "bank_name"
    [] s = "BANK_ACCOUNT" -> "account_number"
    [] s = "BANK_BALANCE" -> "balance"
    [] s = "BANK_TRANSACTIONS" -> "transactions"
    [] s = "BILL_COMPANY" -> "company_name"
    [] s = "BILL_AMOUNT" -> "amount"
    [] s = "BILL_DUE_DATE" -> "due_date"
    [] s = "BILL_SERVICE" -> "service_type"
    [] s = "T4_EMPLOYER_NAME" -> "t4_employer_name"
    [] s = "T4_EMPLOYER_BN" -> "t4_employer_bn"
    [] s = "T4_EMPLOYMENT_INCOME" -> "employment_income"
    [] s = "T4_CPP_CONTRIBUTION" -> "cpp_contribution"
    [] s = "T4_EI_PREMIUM" -> "ei_premium"
    [] s = "T4_TAX_DEDUCTED" -> "tax_deducted"
    [] s = "T4_YEAR" -> "tax_year"
    [] s = "T4_PROVINCE" -> "t4_province"
    [] s = "T4_OTHER_INCOME" -> "other_income"
    [] s = "LETTER_EMPLOYER_NAME" -> "letter_employer_name"
    [] s = "LETTER_EMPLOYER_ADDRESS" -> "letter_employer_address"
    [] s = "LETTER_JOB_TITLE" -> "job_title"
    [] s = "LETTER_START_DATE" -> "start_date"
    [] s = "LETTER_SALARY" -> "letter_salary"
    [] s = "LETTER_EMPLOYMENT_TYPE" -> "employment_type"
    [] s = "LETTER_PURPOSE" -> "letter_purpose"
    [] s = "LETTER_END_DATE" -> "end_date"

\* the attributes that belong to a state: the category to MAIN_MENU, the
\* template id to SELECT_TEMPLATE, its own field to a field node
Owned(s) ==
  IF s = "MAIN_MENU" THEN { "category" }
  ELSE IF s = "SELECT_TEMPLATE" THEN { "template_id" }
  ELSE IF s \in WizardStates \ { "CONFIRM" } THEN { FieldOf(s) }
  ELSE {}

\* a text that is a positive amount
IsPositiveAmount(text) == ParseAmount(text).ok /\ ParseAmount(text).cents > 0

\* the session is complete and validated for the Document Assembler
Complete(f) ==
  /\ f["category"] \in Categories
  /\ \A s \in RequiredCommonNodes \cup RequiredNodes(f["category"]) :
       f[FieldOf(s)] # Empty
  /\ \A s \in AmountNodes \cap RequiredNodes(f["category"]) :
       IsPositiveAmount(f[FieldOf(s)])

Made(call) == \E i \in DOMAIN last.calls : last.calls[i] = call

\* ------------------------------------------------------------------------
\* Properties
\* ------------------------------------------------------------------------

\* C1: whenever the wizard is at CONFIRM, every node of the common tier and
\* every required node of the category picked at MAIN_MENU has been
\* answered since the session started.
C1_NoRequiredNodeSkipped ==
  (conv[MainChat] = "CONFIRM" /\ session[MainChat].chosen \in Categories)
    => (CommonNodes \cup RequiredNodes(session[MainChat].chosen))
         \subseteq session[MainChat].answered

\* C2: when handle_template has accepted a button of the template keyboard
\* of the picked category, the form's category is still the picked one.
C2_CategoryKeptByTemplate ==
  ( /\ last.handler = "handle_template"
    /\ last.ret = "FORM_FIRST_NAME"
    /\ last.upd.data \in build_template_keyboard(session[MainChat].chosen) )
    => Form["category"] = session[MainChat].chosen

\* C3: a text that is no positive amount, sent to an amount node, leaves
\* the conversation in that node and the form as it was.
C3_InvalidAmountRejected ==
  [][ ( /\ conv[MainChat] \in AmountNodes
        /\ last'.upd.kind = "text"
        /\ ~IsPositiveAmount(last'.upd.data) )
        => (conv' = conv /\ user_data' = user_data) ]_vars

\* C4: whenever generate_pdf has been called, the form it was given has a
\* known category, no empty required field and only positive amounts.
C4_AssemblerGetsCompleteSession == Made("generate_pdf") => Complete(Form)

\* C5: every step that is no restart changes, of the form, at most the
\* attribute that belongs to the state the conversation was in.
C5_OnlyOwnFieldWritten ==
  [][ \/ last'.reply = "main_menu"
      \/ \A k \in FormKeys :
           GetForm(user_data')[k] # GetForm(user_data)[k]
             => k \in Owned(conv[MainChat]) ]_vars

\* C6: in every wizard state the cancel command is taken by the cancel
\* handler, and a cancel sent during a conversation has ended it.
C6_CancelEndsFromEveryState ==
  /\ \A s \in WizardStates : Select(s, Command("cancel")) = "cancel"
  /\ (last.upd = Command("cancel") /\ last.state # None)
       => /\ last.handler = "cancel"
          /\ last.ret = END
          /\ conv[last.chat] = None

\* a cancel was sent at CONFIRM and ended the conversation
C6_Witness ==
  /\ last.upd = Command("cancel")
  /\ last.state = "CONFIRM"
  /\ conv[MainChat] = None

C8_StartRestartsFromAnyState ==
  last.upd = Command("start")
    => (conv[MainChat] = "MAIN_MENU" /\ Form = FreshForm)

C10_CollaboratorsOnlyAtProceed ==
  [][ (Made("generate_pdf")' \/ Made("save_document")'
         \/ db'.documents # db.documents)
        => /\ conv[MainChat] = "CONFIRM"
           /\ last'.upd = Callback(CONFIRM_YES)
           /\ last'.handler = "handle_confirmation" ]_vars

\* the proceed transition stored a document
C10_Witness == Made("save_document") /\ db.documents = 1

\* C11: when generate_pdf raises or save_document returns no id at the
\* proceed transition, the conversation ends all the same, user_data and
\* the database are as they were, and the user is told: the error message
\* when the generator raised (save_document is then not called), the
\* document with the id shown as N/A when the save failed.
C11_CollaboratorFailureStillEnds ==
  [][ ( /\ conv[MainChat] = "CONFIRM"
        /\ last'.upd = Callback(CONFIRM_YES)
        /\ last'.env # AllOk )
        => /\ last'.ret = END
           /\ conv'[MainChat] = None
           /\ user_data' = user_data
           /\ db' = db
           /\ Made("generate_pdf")'
           /\ IF last'.env.pdfOk
                THEN last'.reply = "document_id_na"
                ELSE last'.reply = "error" /\ ~Made("save_document")' ]_vars

\* the save failed at the proceed transition of an answered form
C11_Witness ==
  /\ last.state = "CONFIRM"
  /\ last.upd = Callback(CONFIRM_YES)
  /\ last.env = [dbOk |-> FALSE, pdfOk |-> TRUE]
  /\ Form["first_name"] # Empty
  /\ conv[MainChat] = None

\* C12: a step that runs start (the start command at an entry point, or
\* BACK_MAIN in one of the two menus) stores a record with the user's id
\* and username and with category, template id and every field empty,
\* whatever record there was before, and leaves the conversation at
\* MAIN_MENU.
C12_StartStoresFreshRecord ==
  [][ (last'.handler = "start" \/ last'.reply = "main_menu")
        => /\ user_data'.has
           /\ GetForm(user_data')["user_id"] = User.id
           /\ GetForm(user_data')["username"] = User.username
           /\ IsReset(GetForm(user_data'))
           /\ conv'[last'.chat] = "MAIN_MENU" ]_vars

\* start has run after an earlier session of the user stored a document
C12_Witness ==
  /\ last.handler = "start"
  /\ db.documents = 1
  /\ Form = FreshForm
  /\ conv[MainChat] = "MAIN_MENU"

C14_OneLiveSessionPerUser ==
  Cardinality({ c \in Chats : conv[c] # None }) <= 1

\* C15: a text that is empty once stripped, sent to a required node,
\* leaves the conversation in that node and the form as it was.
C15_EmptyRequiredTextRejected ==
  [][ ( /\ conv[MainChat] \in
             RequiredCommonNodes \cup UNION { RequiredNodes(cat) : cat \in Categories }
        /\ last'.upd.kind = "text"
        /\ last'.handler # "none"
        /\ strip(last'.upd.data) = Empty )
        => (conv' = conv /\ user_data' = user_data) ]_vars

\* C16: the province of a payroll form, the province of a T4 form and the
\* employment type are empty or one of the values of the node's buttons.
C16_ChoiceFromFixedSet ==
  /\ Form["province"] \in
       { Empty } \cup { replace_tag(b, "PROV") : b \in build_province_keyboard }
  /\ Form["t4_province"] \in
       { Empty } \cup { replace_tag(b, "PROV") : b \in build_province_keyboard }
  /\ Form["employment_type"] \in
       { Empty } \cup
         { replace_tag(b, "EMPTYPE") : b \in build_employment_type_keyboard }

\* the order of the common tier
CommonOrder ==
  << "FORM_FIRST_NAME", "FORM_LAST_NAME", "FORM_ADDRESS", "FORM_CITY",
     "FORM_POSTAL_CODE", "FORM_UNIT", "FORM_PHONE" >>

\* the nodes of the category-specific tiers
CategoryNodes ==
  WizardStates \ (CommonNodes \cup { "MAIN_MENU", "SELECT_TEMPLATE", "CONFIRM" })

\* C17: an answer accepted at a node of the common tier moves the
\* conversation to the next node of the order first name, last name,
\* address, city, postal code, unit, phone, whatever the category; the
\* first name is asked only after the template menu, and a node of a
\* category tier is entered only from phone or from a node of such a tier.
C17_CommonTierInOrder ==
  [][ /\ \A i \in 1..6 :
           ( /\ conv[MainChat] = CommonOrder[i]
             /\ last'.handler \notin { "none", "cancel" } )
             => conv'[MainChat] = CommonOrder[i + 1]
      /\ ( /\ conv[MainChat] = "FORM_PHONE"
           /\ last'.handler \notin { "none", "cancel" } )
           => conv'[MainChat] \in CategoryNodes \cup { "CONFIRM" }
      /\ ( /\ conv'[MainChat] = "FORM_FIRST_NAME"
           /\ conv[MainChat] # "FORM_FIRST_NAME" )
           => conv[MainChat] = "SELECT_TEMPLATE"
      /\ ( /\ conv'[MainChat] \in CategoryNodes
           /\ conv[MainChat] \notin CategoryNodes )
           => conv[MainChat] = "FORM_PHONE" ]_vars

\* the phone was answered after the six nodes before it, and the bill tier
\* has started
C17_Witness ==
  /\ last.state = "FORM_PHONE"
  /\ conv[MainChat] = "BILL_COMPANY"
  /\ CommonNodes \subseteq session[MainChat].answered

\* an update was handled by a handler of the state, not by the cancel
\* fallback
Answered == last'.handler \notin { "none", "cancel" }

\* C18 as claimed: the answer to the company question of a bill brings the
\* amount question, with no other node in between.
C18_BillCompanyThenAmount ==
  [][ (conv[MainChat] = "BILL_COMPANY" /\ Answered)
        => conv'[MainChat] = "BILL_AMOUNT" ]_vars

\* the order of the bill tier
BillOrder ==
  << "BILL_COMPANY", "BILL_SERVICE", "BILL_AMOUNT", "BILL_DUE_DATE", "CONFIRM" >>

\* C18 as amended: the bill tier is entered from phone with category bill
\* and runs company, service type, amount, due date, CONFIRM, each answer
\* bringing the next node; the due date is asked only once the amount was
\* answered, and the due-date field is written only at BILL_DUE_DATE or
\* emptied by a restart.
C18_BillTierInOrder ==
  [][ /\ \A i \in 1..4 :
           (conv[MainChat] = BillOrder[i] /\ Answered)
             => conv'[MainChat] = BillOrder[i + 1]
      /\ (conv'[MainChat] = "BILL_COMPANY" /\ conv[MainChat] # "BILL_COMPANY")
           => (conv[MainChat] = "FORM_PHONE" /\ Form["category"] = << "bill" >>)
      /\ conv'[MainChat] = "BILL_DUE_DATE"
           => "BILL_AMOUNT" \in session'[MainChat].answered
      /\ GetForm(user_data')["due_date"] # Form["due_date"]
           => \/ conv[MainChat] = "BILL_DUE_DATE"
              \/ last'.reply = "main_menu" ]_vars

\* a bill went through its four nodes and is at CONFIRM
C18_Witness ==
  /\ conv[MainChat] = "CONFIRM"
  /\ last.state = "BILL_DUE_DATE"
  /\ Form["category"] = << "bill" >>
  /\ Form["due_date"] # Empty
  /\ { "BILL_COMPANY", "BILL_SERVICE", "BILL_AMOUNT", "BILL_DUE_DATE" }
       \subseteq session[MainChat].answered

\* the order of the payroll tier
PayrollOrder ==
  << "PAYROLL_EMPLOYER", "PAYROLL_SALARY", "PAYROLL_PERIOD",
     "PAYROLL_PROVINCE", "CONFIRM" >>

\* C19: the payroll tier is entered from phone with category payroll and
\* runs employer, salary, pay period, province, CONFIRM, each answer
\* bringing the next node; none of its nodes is entered any other way.
C19_PayrollTierInOrder ==
  [][ /\ \A i \in 1..4 :
           (conv[MainChat] = PayrollOrder[i] /\ Answered)
             => conv'[MainChat] = PayrollOrder[i + 1]
      /\ (conv'[MainChat] = "PAYROLL_EMPLOYER"
             /\ conv[MainChat] # "PAYROLL_EMPLOYER")
           => (conv[MainChat] = "FORM_PHONE" /\ Form["category"] = << "payroll" >>)
      /\ \A i \in 2..4 :
           (conv'[MainChat] = PayrollOrder[i] /\ conv[MainChat] # PayrollOrder[i])
             => conv[MainChat] = PayrollOrder[i - 1]
      /\ conv'[MainChat] \notin { "PAYROLL_HOURS", "PAYROLL_RATE" } ]_vars

\* a payroll went through its four nodes and is at CONFIRM
C19_Witness ==
  /\ conv[MainChat] = "CONFIRM"
  /\ last.state = "PAYROLL_PROVINCE"
  /\ Form["category"] = << "payroll" >>
  /\ { "PAYROLL_EMPLOYER", "PAYROLL_SALARY", "PAYROLL_PERIOD",
       "PAYROLL_PROVINCE" } \subseteq session[MainChat].answered

\* the nodes after phone, CONFIRM included, of a form of the category
TierOrder(category) ==
  CASE category = << "payroll" >> -> PayrollOrder
    [] category = << "bank" >> ->
         << "BANK_NAME", "BANK_ACCOUNT", "BANK_BALANCE", "CONFIRM" >>
    [] category = << "bill" >> -> BillOrder
    [] category = << "t4" >> ->
         << "T4_EMPLOYER_NAME", "T4_EMPLOYER_BN", "T4_YEAR", "T4_PROVINCE",
            "T4_EMPLOYMENT_INCOME", "T4_CPP_CONTRIBUTION", "T4_EI_PREMIUM",
            "T4_TAX_DEDUCTED", "CONFIRM" >>
    [] OTHER -> << "CONFIRM" >>

OptionalNodes == { s \in WizardStates : Select(s, Callback(SKIP)) # "none" }

\* C21: the SKIP button pressed at an optional node is accepted, leaves
\* the form as it was but for the node's own field, which is empty
\* afterwards, and brings the state a text answer would have brought.
C21_SkipStoresEmptyAndAdvances ==
  [][ (conv[MainChat] \in OptionalNodes /\ last'.upd = Callback(SKIP))
        => LET s == conv[MainChat]
               t == Call(Select(s, Text(Ann)), Text(Ann), user_data, db, AllOk)
           IN /\ last'.handler = Select(s, Text(Ann))
              /\ user_data' = Store(user_data, FieldOf(s), Empty)
              /\ last'.ret = t.ret
              /\ last'.ret # s
              /\ conv'[MainChat] = update_state(t.ret) ]_vars

\* the CPP contribution of a T4 was skipped
C21_Witness ==
  /\ last.upd = Callback(SKIP)
  /\ last.state = "T4_CPP_CONTRIBUTION"
  /\ conv[MainChat] = "T4_EI_PREMIUM"
  /\ Form["cpp_contribution"] = Empty
  /\ Form["employment_income"] # Empty

\* the nodes that ask for a field
FieldNodes == CommonNodes \cup CategoryNodes

\* C22: an answer accepted at a field node changes, of user_data, nothing
\* but the node's own field (user id, username, category, template id and
\* every other field are as before), and a text answer is stored, stripped,
\* in that field.
C22_FieldNodeWritesOneKey ==
  [][ (conv[MainChat] \in FieldNodes /\ Answered)
        => LET s == conv[MainChat] IN
           /\ user_data'.has
           /\ \A k \in FormKeys \ { FieldOf(s) } :
                GetForm(user_data')[k] = Form[k]
           /\ last'.upd.kind = "text"
                => GetForm(user_data')[FieldOf(s)] = strip(last'.upd.data) ]_vars

\* the account number of a bank statement was stored next to the bank name
C22_Witness ==
  /\ last.state = "BANK_ACCOUNT"
  /\ conv[MainChat] = "BANK_BALANCE"
  /\ Form["account_number"] # Empty
  /\ Form["bank_name"] # Empty
  /\ Form["template_id"] # Empty

\* the pay stub asked for last, and the one before it
Stub == calc[1].out

StubBefore == calc[2].out

\* the sum of the amounts of deduction rows
RECURSIVE SumRows(_)
SumRows(rows) ==
  IF rows = << >> THEN 0 ELSE Head(rows)[2] + SumRows(Tail(rows))

\* the amount of the deduction row with the label
Deduction(out, label) ==
  LET i == CHOOSE i \in DOMAIN out.deductions : out.deductions[i][1] = label
  IN out.deductions[i][2]

\* C23: every pay stub has four deductions (federal tax, regional tax,
\* employment insurance, pension) and its net pay is the gross less the
\* four.
C23_NetIsGrossLessFourDeductions ==
  calc # << >>
    => /\ Len(Stub.deductions) = 4
       /\ Stub.net = Stub.gross - SumRows(Stub.deductions)

\* two pay stubs were asked for, with the same pay period and province
SamePeriodAndProvince ==
  /\ Len(calc) = 2
  /\ calc[1].data["pay_period"] = calc[2].data["pay_period"]
  /\ calc[1].data["province"] = calc[2].data["province"]

\* C24: from a gross of 10000 a period on (120000 a year at the least
\* frequent period, monthly) the EI and the pension deductions sit at their
\* caps: two such pay stubs of the same period and province show the same
\* EI and the same pension deduction, whatever their gross.
C24_DeductionsCapped ==
  ( /\ SamePeriodAndProvince
    /\ Stub.gross >= ParseAmount(Amt10000).cents
    /\ StubBefore.gross >= ParseAmount(Amt10000).cents )
    => /\ Deduction(Stub, "EI/AE") = Deduction(StubBefore, "EI/AE")
       /\ Deduction(Stub, "CPP/RPC") = Deduction(StubBefore, "CPP/RPC")

\* C25: income tax follows progressive brackets, the part of an income
\* above a boundary being taxed at the next, higher rate only: so the tax
\* on twice a gross that is past the first boundary (10000 a period is) is
\* more than twice the tax on that gross.
C25_TaxIsProgressive ==
  ( /\ SamePeriodAndProvince
    /\ StubBefore.gross >= ParseAmount(Amt10000).cents
    /\ Stub.gross = 2 * StubBefore.gross )
    => Deduction(Stub, "Income Tax / Impot")
         > 2 * Deduction(StubBefore, "Income Tax / Impot")

\* the pension deduction of the pay stub of the form asked for last, had
\* its salary and province been the given ones
PensionFor(sal, prov) ==
  Deduction(generate_payroll_pdf([calc[1].data EXCEPT !["salary"] = sal,
                                                     !["province"] = << prov >>],
                                 calc[1].now),
            "CPP/RPC")

\* C26: one province has a pension rate and cap of its own: for each other
\* province there is a salary at which the two pension deductions differ.
C26_PensionDependsOnProvince ==
  calc # << >>
    => \E prov \in SeqToSet(provinces) :
         \A other \in SeqToSet(provinces) \ { prov } :
           \E sal \in Salaries : PensionFor(sal, prov) # PensionFor(sal, other)

\* C27: rates, brackets and caps are applied to the gross of the year, the
\* gross of the period times 52 for weekly and 12 for monthly, and the
\* results divided by the same number: so of two pay stubs of the same
\* gross of 10000 or more, one weekly and one monthly, the capped EI
\* deduction of the period differs (the cap over 52 and the cap over 12).
C27_FiguresFollowFrequency ==
  ( /\ Len(calc) = 2
    /\ calc[1].data["salary"] = calc[2].data["salary"]
    /\ calc[1].data["province"] = calc[2].data["province"]
    /\ calc[1].data["pay_period"] = Weekly
    /\ calc[2].data["pay_period"] = Monthly
    /\ Stub.gross >= ParseAmount(Amt10000).cents )
    => Deduction(Stub, "EI/AE") # Deduction(StubBefore, "EI/AE")

\* an amount text with the currency symbol and surrounding white space
\* taken off and each comma read as the decimal point
CommaAsPoint(s) ==
  LET t == strip(remove(s, "$")) IN
  [i \in DOMAIN t |-> IF t[i] = "," THEN "." ELSE t[i]]

\* C28: the gross of a pay stub is the decimal number its salary text
\* spells once the currency symbol and white space are stripped and the
\* comma is read as the decimal point ("150,50" and "$150.50" are 150.50).
C28_AmountParsedWithDecimalComma ==
  (calc # << >> /\ float(CommaAsPoint(calc[1].data["salary"])).ok)
    => Stub.gross = float(CommaAsPoint(calc[1].data["salary"])).cents

\* C29: whenever the proceed transition has had the pay stub generated,
\* none of the deductions computed for the stub is negative.
C29_NoNegativeDeduction ==
  (Made("generate_pdf") /\ Made("generate_payroll_pdf") /\ last.env.pdfOk)
    => LET out == generate_payroll_pdf(Form, "2025-01-01 10:00") IN
       \A i \in DOMAIN out.deductions : out.deductions[i][2] >= 0

\* C30: two computations of the pay stub from the same salary, pay period
\* and province show the same gross, the same deduction rows and the same
\* net pay, whatever the time of generation, the stub computed before and
\* the other fields of the form were.
C30_FiguresDeterministic ==
  ( /\ SamePeriodAndProvince
    /\ calc[1].data["salary"] = calc[2].data["salary"] )
    => /\ Stub.gross = StubBefore.gross
       /\ Stub.deductions = StubBefore.deductions
       /\ Stub.net = StubBefore.net

C30_Witness ==
  /\ SamePeriodAndProvince
  /\ calc[1].data["salary"] = calc[2].data["salary"]
  /\ calc[1].data["employer_name"] # calc[2].data["employer_name"]
  /\ calc[1].now # calc[2].now
  /\ Stub.generated_on # StubBefore.generated_on
  /\ Stub.net > 0
  /\ Deduction(Stub, "Income Tax / Impot") > 0

\* the generator generate_pdf routes a form of the category to
GeneratorOf(category) == generate_pdf([k \in { "category" } |-> category])

\* C31: when the proceed transition has invoked generate_pdf, the generator
\* that ran is the one of the category picked at MAIN_MENU.
C31_GeneratorOfChosenCategory ==
  (Made("generate_pdf") /\ session[MainChat].chosen \in Categories)
    => Made(GeneratorOf(session[MainChat].chosen))

\* C32: when handle_template has accepted a button of the template keyboard
\* of the picked category, the template id of the form is one of the
\* template ids TEMPLATES lists for the category of the form.
C32_TemplateOfCategory ==
  ( /\ last.handler = "handle_template"
    /\ last.ret = "FORM_FIRST_NAME"
    /\ last.upd.data \in build_template_keyboard(session[MainChat].chosen) )
    => Form["template_id"] \in SeqToSet(TEMPLATES(Form["category"]))

\* the template buttons handle_template splits
TplButtons == { b \in TemplateButtons : StartsWithTag(b, "TPL") }

\* the categories a stored form can carry: none yet, a key of TEMPLATES, or
\* what handle_template cuts out of a template button
FormCategories ==
  { Empty } \cup Categories \cup { split2(b)[2] : b \in TplButtons }

\* the template ids a stored form can carry
FormTemplates == { Empty } \cup { split2(b)[3] : b \in TplButtons }

\* the states one update can take a conversation in state s to, whatever
\* category and template id the stored form carries
NextStates(s) ==
  UNION { UNION { { update_state(Call(Select(s, upd), upd, SetForm(f), EmptyDb,
                                      env).ret) :
                      env \in Envs(Select(s, upd)) } :
                   upd \in { u \in Updates(s, f) : Select(s, u) # "none" } } :
          f \in { [DefaultFormData EXCEPT !["category"] = k,
                                          !["template_id"] = t] :
                    k \in FormCategories, t \in FormTemplates } }

\* the states some finite sequence of updates leads to from the states of S
RECURSIVE ReachableFrom(_)
ReachableFrom(S) ==
  LET T == S \cup UNION { NextStates(s) : s \in S }
  IN IF T = S THEN S ELSE ReachableFrom(T)

\* C33: every declared state can be reached: from the state the
\* conversation is in (cancel and start lead back to the beginning from
\* anywhere) some sequence of updates puts the wizard in it.
C33_EveryStateReachable ==
  WizardStates \subseteq ReachableFrom({ conv[MainChat] })

\* range(n): the integers 0 .. n-1 in order
range(n) == [i \in 1..n |-> i - 1]

\* the right-hand side of the state declaration
StateValues == range(42)

\* (a, b, ...) = values: each target bound to the value at its position
\* when there are as many values as targets, ValueError otherwise
unpack(targets, values) ==
  IF Len(targets) = Len(values)
  THEN [ok |-> TRUE, bound |-> [i \in DOMAIN targets |-> values[i]]]
  ELSE [ok |-> FALSE, bound |-> << >>]

\* C34: a conversation is in a declared state only under a declaration that
\* unpacked: range(42) has as many values as the declaration has names, and
\* the names are bound to distinct integers.
C34_StateDeclarationUnpacks ==
  (\E c \in Chats : conv[c] \in WizardStates)
    => LET u == unpack(StateNames, StateValues) IN
       /\ u.ok
       /\ \A i, j \in DOMAIN StateNames : i # j => u.bound[i] # u.bound[j]

\* the latest update handled in the chat was a proceed, an abort or a cancel
Ended ==
  /\ last.chat = MainChat
  /\ \/ last.handler = "cancel"
     \/ /\ last.handler = "handle_confirmation"
        /\ last.upd.data \in { CONFIRM_YES, CONFIRM_EDIT, CONFIRM_CANCEL }

\* C35: once a proceed, an abort or a cancel has ended the conversation,
\* and for as long as it has no state, an update other than the start
\* command runs no handler: generate_pdf and save_document are not invoked,
\* and the conversation, the form, the database and the session stay as
\* they are.
C35_NothingAfterEnd ==
  [][ ( /\ Ended \/ conv[MainChat] = None
        /\ last'.chat = MainChat
        /\ last'.upd # Command("start") )
        => /\ last'.calls = << >>
           /\ conv' = conv
           /\ user_data' = user_data
           /\ db' = db
           /\ session' = session ]_vars

\* a button pressed again after the proceed that stored the document
C35_Witness ==
  /\ db.documents = 1
  /\ conv[MainChat] = None
  /\ last.state = None
  /\ last.handler = "none"
  /\ last.upd.kind = "callback"

\* the number of nodes of the longest category list
LongestTier ==
  LET lens == { Len(TierOrder(category)) - 1 : category \in Categories }
  IN CHOOSE n \in lens : \A m \in lens : m <= n

\* C36: an answer accepted at a field node never brings back a node the
\* session has already answered, nor one of the two menus, so no node is
\* answered twice; at CONFIRM the field nodes answered are no more than
\* the common tier and the longest category list together; and the
\* conversation ends once a decision is delivered at CONFIRM: each of the
\* three buttons is accepted there by handle_confirmation, every update
\* it handles ends the conversation, and no other step moves the
\* conversation anywhere but to the end.
C36_AcyclicAndEnds ==
  /\ [][ (conv[MainChat] \in FieldNodes /\ Answered)
          => conv'[MainChat] \notin
               session[MainChat].answered
                 \cup { conv[MainChat], "MAIN_MENU", "SELECT_TEMPLATE", None } ]_vars
  /\ [](conv[MainChat] = "CONFIRM"
          => /\ Cardinality(session[MainChat].answered \cap FieldNodes)
                 <= Len(CommonOrder) + LongestTier
             /\ \A b \in build_confirm_keyboard :
                  Select(conv[MainChat], Callback(b)) = "handle_confirmation")
  /\ [][ conv[MainChat] = "CONFIRM"
          => /\ conv'[MainChat] \in { "CONFIRM", None }
             /\ last'.handler = "handle_confirmation"
                  => conv'[MainChat] = None ]_vars

\* a T4 session that answered the seven common nodes and the eight nodes of
\* its list and was ended by the decision at the confirmation
C36_Witness ==
  /\ conv[MainChat] = None
  /\ last.state = "CONFIRM"
  /\ last.handler = "handle_confirmation"
  /\ session[MainChat].chosen = << "t4" >>
  /\ Cardinality(session[MainChat].answered \cap FieldNodes)
       = Len(CommonOrder) + LongestTier

\* the states the handlers return, from any state of the table or from the
\* entry point, on any update and any stored form
ReturnedStates ==
  UNION { NextStates(s) : s \in WizardStates \cup { None } } \ { None }

\* C37: every state a handler returns has a handler registered in the
\* state table, and the state a conversation is in accepts some update
\* through a handler of the table, not only cancel through the fallback.
C37_NoDeadEnd ==
  /\ \A s \in ReturnedStates : states(s) # << >>
  /\ \A c \in Chats :
       conv[c] # None
         => \E upd \in Updates(conv[c], Form) :
              FirstMatch(states(conv[c]), upd) # "none"

\* the confirmation shown by show_confirmation after the last bank answer
C37_Witness ==
  /\ last.handler = "handle_bank_balance"
  /\ last.ret = "CONFIRM"
  /\ conv[MainChat] = "CONFIRM"
  /\ "CONFIRM" \in ReturnedStates

\* C38: in a step of the proceed transition save_document is called only
\* after generate_pdf, and only when generate_pdf returned; when it raised,
\* save_document is not called and the database is left as it was.
C38_GenerateBeforeSave ==
  [][ last'.handler = "handle_confirmation"
        => /\ \A i \in DOMAIN last'.calls :
                last'.calls[i] = "save_document"
                  => /\ last'.env.pdfOk
                     /\ \E j \in 1..(i - 1) : last'.calls[j] = "generate_pdf"
           /\ (Made("generate_pdf")' /\ ~last'.env.pdfOk)
                => /\ ~Made("save_document")'
                   /\ db' = db ]_vars

\* the generator raised at the proceed transition while the database was
\* available: nothing was stored
C38_Witness ==
  /\ last.handler = "handle_confirmation"
  /\ last.upd = Callback(CONFIRM_YES)
  /\ last.env = [dbOk |-> TRUE, pdfOk |-> FALSE]
  /\ Made("generate_pdf")
  /\ db.documents = 0

\* C39: the document_count of the user's row equals the number of rows of
\* the documents table stored for the user, whenever the row exists.
C39_CountEqualsDocuments ==
  db.user_row => db.document_count = db.documents

\* the four amount fields of the T4 form
T4Amounts ==
  { "employment_income", "cpp_contribution", "ei_premium", "tax_deducted" }

\* C40: when the proceed transition has generated the T4 document, each of
\* the four amounts shown is the parsed value of its own field whenever
\* that field parses, and 0 when a contribution, premium or tax was
\* skipped, whatever the other three fields hold.
C40_T4AmountOfOwnField ==
  (Made("generate_t4_pdf") /\ last.env.pdfOk)
    => \A k \in T4Amounts :
         /\ ParseAmount(Form[k]).ok
              => generate_t4_pdf(Form)[k] = ParseAmount(Form[k]).cents
         /\ (Form[k] = Empty /\ k # "employment_income")
              => generate_t4_pdf(Form)[k] = 0

====
